---- MODULE Spec2Model ----
(***************************************************************************)
(* Model of the Pong core (src/pong/world.py): Speed, Paddle, Ball, World. *)
(*                                                                         *)
(* A hit factor is the float ((c - paddle.y) / height) * 2 - 1 clamped to  *)
(* [-1, 1].  It is modelled exactly by its integer numerator over the      *)
(* paddle height: h = n / PaddleHeight with n in -PaddleHeight ..          *)
(* PaddleHeight.  int(max(v, |h| * max_speed)) truncates the float, which  *)
(* is the integer quotient (|n| * max_speed) \div PaddleHeight.            *)
(***************************************************************************)
EXTENDS Integers, FiniteSets, Sequences, TLC

VARIABLES left_paddle, right_paddle, ball, ticks, moves, last, bounces, view,
          ui

vars ==
    <<left_paddle, right_paddle, ball, ticks, moves, last, bounces, view, ui>>

(* ---------------- program constants (World.__init__) ------------------- *)
Width == 800
Height == 600
PaddleHeight == 100
PaddleWidth == 15
PaddleSpeed == 10
LeftPaddleX == 20
RightPaddleX == Width - 20 - PaddleWidth
BallSize == 15
BaseSpeed == 4
MaxSpeed == 12
SpeedIncrement == 1

(* ---------------- bounds of the exploration ---------------------------- *)
\* ticks explored in one round (since construction or the last restart);
\* bounces counts the paddle bounces of the round
MaxTicks == 250
\* move commands explored in one round
MaxMoves == 7
\* the same two horizons for the paddle-travel specification
PadTicks == 2
PadMoves == 26
\* how far in front of a paddle's face the single-tick specification starts the ball
Near == 13

Directions == {-1, 1}

Max(a, b) == IF a >= b THEN a ELSE b
Min(a, b) == IF a <= b THEN a ELSE b
Abs(a) == IF a >= 0 THEN a ELSE -a

(* ---------------- Speed ------------------------------------------------ *)
NewSpeed(value, direction) ==
    [value |-> value, direction |-> IF direction > 0 THEN 1 ELSE -1]

Velocity(s) == s.value * s.direction

Reverse(s) == [s EXCEPT !.direction = s.direction * (-1)]

Increase(s, amount) == [s EXCEPT !.value = s.value + amount]

Decrease(s, amount) == [s EXCEPT !.value = Max(0, s.value - amount)]

SetValue(s, value) == [s EXCEPT !.value = Max(0, value)]

(* ---------------- Position / Paddle ------------------------------------ *)
NewPosition(x, y) == [x |-> x, y |-> y]

\* mutant: move_up without the max(0, ...) clamp
MoveUp_NoClamp(p, game_height) == NewPosition(p.x, p.y - PaddleSpeed)

MoveUp(p, game_height) == NewPosition(p.x, Max(0, p.y - PaddleSpeed))

\* mutant: move_down clamps at the arena height, not at height - paddle height
MoveDown_FullHeight(p, game_height) ==
    NewPosition(p.x, Min(game_height, p.y + PaddleSpeed))

MoveDown(p, game_height) ==
    NewPosition(p.x, Min(game_height - PaddleHeight, p.y + PaddleSpeed))

\* mutant: the normalized hit position is returned without the clamp to [-1, 1]
GetHitFactor_NoClamp(p, ball_y) ==
    LET relative_hit == ball_y - p.y
    IN  2 * relative_hit - PaddleHeight

\* numerator of the hit factor over PaddleHeight
GetHitFactor(p, ball_y) ==
    LET relative_hit == ball_y - p.y
        normalized_hit == 2 * relative_hit - PaddleHeight
    IN  Max(-PaddleHeight, Min(PaddleHeight, normalized_hit))

(* ---------------- Ball -------------------------------------------------- *)
NewBall(x, y, h_dir, v_dir) ==
    [position |-> NewPosition(x, y),
     horizontal_speed |-> NewSpeed(BaseSpeed, h_dir),
     vertical_speed |-> NewSpeed(0, v_dir)]

\* mutant: the motion step moves the ball only vertically
UpdatePosition_NoHorizontal(b) ==
    [b EXCEPT !.position =
        NewPosition(b.position.x, b.position.y + Velocity(b.vertical_speed))]

UpdatePosition(b) ==
    [b EXCEPT !.position =
        NewPosition(b.position.x + Velocity(b.horizontal_speed),
                    b.position.y + Velocity(b.vertical_speed))]

\* mutant: bounce_horizontal leaves the vertical speed as it is
BounceHorizontal_Keep(b) == b

BounceHorizontal(b) == [b EXCEPT !.vertical_speed = Reverse(b.vertical_speed)]

\* mutant: the bounce reverses the horizontal speed without raising it
BounceVerticalH_NoIncrement(hs) == Reverse(hs)

\* mutant: the horizontal magnitude grows without the max_speed cap
BounceVerticalH_NoCap(hs) ==
    LET r == Reverse(hs)
    IN  SetValue(r, r.value + SpeedIncrement)

BounceVerticalH(hs) ==
    LET r == Reverse(hs)
        new_h_speed == Min(r.value + SpeedIncrement, MaxSpeed)
    IN  SetValue(r, new_h_speed)

\* mutant: the magnitude is the desired one, not the larger of it and the current
BounceVerticalV_NoMax(vs, hit_factor) ==
    LET final_v_speed_value ==
            Min((Abs(hit_factor) * MaxSpeed) \div PaddleHeight, MaxSpeed)
        s == SetValue(vs, final_v_speed_value)
    IN  IF hit_factor > 0 THEN [s EXCEPT !.direction = 1]
        ELSE IF hit_factor < 0 THEN [s EXCEPT !.direction = -1]
        ELSE s

\* mutant: a centre hit (hit factor 0) sends the ball down like a positive one
BounceVerticalV_CenterDown(vs, hit_factor) ==
    LET final_v_speed_value ==
            Min(Max(vs.value * PaddleHeight, Abs(hit_factor) * MaxSpeed)
                    \div PaddleHeight, MaxSpeed)
        s == SetValue(vs, final_v_speed_value)
    IN  [s EXCEPT !.direction = IF hit_factor >= 0 THEN 1 ELSE -1]

\* hit_factor is the numerator n of h = n / PaddleHeight
BounceVerticalV(vs, hit_factor) ==
    LET desired_num == Abs(hit_factor) * MaxSpeed
        vertical_direction == IF hit_factor > 0 THEN 1
                              ELSE IF hit_factor < 0 THEN -1
                              ELSE vs.direction
        final_v_speed_value ==
            Min(Max(vs.value * PaddleHeight, desired_num) \div PaddleHeight, MaxSpeed)
        s == SetValue(vs, final_v_speed_value)
    IN  IF hit_factor # 0 THEN [s EXCEPT !.direction = vertical_direction] ELSE s

BounceVertical(b, hit_factor) ==
    [b EXCEPT !.horizontal_speed = BounceVerticalH(b.horizontal_speed),
              !.vertical_speed = BounceVerticalV(b.vertical_speed, hit_factor)]

Reset(b, x, y, h_dir, v_dir) ==
    [b EXCEPT !.position = NewPosition(x, y),
              !.horizontal_speed = NewSpeed(BaseSpeed, h_dir),
              !.vertical_speed = NewSpeed(0, v_dir)]

(* ---------------- World ------------------------------------------------- *)
CollisionLeft(paddle, b) ==
    /\ b.position.x <= paddle.x + PaddleWidth
    /\ b.position.x + Velocity(b.horizontal_speed) <= paddle.x + PaddleWidth
    /\ b.position.y + BallSize >= paddle.y
    /\ b.position.y <= paddle.y + PaddleHeight

\* mutant: a ball whose top just touches the paddle's bottom edge is missed
CollisionRight_StrictBottom(paddle, b) ==
    /\ b.position.x + BallSize >= paddle.x
    /\ b.position.x + BallSize + Velocity(b.horizontal_speed) >= paddle.x
    /\ b.position.y + BallSize >= paddle.y
    /\ b.position.y < paddle.y + PaddleHeight

CollisionRight(paddle, b) ==
    /\ b.position.x + BallSize >= paddle.x
    /\ b.position.x + BallSize + Velocity(b.horizontal_speed) >= paddle.x
    /\ b.position.y + BallSize >= paddle.y
    /\ b.position.y <= paddle.y + PaddleHeight

\* update_world, lines 388-395: top and bottom walls
WallHit(b) == b.position.y <= 0 \/ b.position.y >= Height - BallSize

\* mutant: the wall reverses the ball but does not put it back inside
WallStep_NoClamp(b) == IF WallHit(b) THEN BounceHorizontal(b) ELSE b

WallStep(b) ==
    IF WallHit(b)
    THEN LET r == BounceHorizontal(b)
         IN  IF r.position.y < 0
             THEN [r EXCEPT !.position = NewPosition(r.position.x, 0)]
             ELSE IF r.position.y > Height - BallSize
             THEN [r EXCEPT !.position = NewPosition(r.position.x, Height - BallSize)]
             ELSE r
    ELSE b

\* update_world, lines 397-413: which paddle, if any, the ball bounces off
PaddleHit(lp, rp, b) ==
    IF b.horizontal_speed.direction > 0 /\ CollisionRight(rp, b) THEN "right"
    ELSE IF b.horizontal_speed.direction < 0 /\ CollisionLeft(lp, b) THEN "left"
    ELSE "none"

\* the hit factor update_world computes for the paddle it bounces off (0: none)
HitFactor(lp, rp, b) ==
    LET hit == PaddleHit(lp, rp, b)
        center == b.position.y + BallSize \div 2
    IN  IF hit = "right" THEN GetHitFactor(rp, center)
        ELSE IF hit = "left" THEN GetHitFactor(lp, center)
        ELSE 0

\* mutant: the bounce leaves the ball where the motion step put it
PaddleStep_NoSnap(lp, rp, b) ==
    IF PaddleHit(lp, rp, b) = "none" THEN b
    ELSE BounceVertical(b, HitFactor(lp, rp, b))

\* mutant: the ball is put on the paddle's face, not one ball size in front of it
PaddleStep_SnapOnFace(lp, rp, b) ==
    LET hit == PaddleHit(lp, rp, b)
        hit_factor == HitFactor(lp, rp, b)
    IN  IF hit = "right"
        THEN LET r == BounceVertical(b, hit_factor)
             IN  [r EXCEPT !.position = NewPosition(rp.x, r.position.y)]
        ELSE IF hit = "left"
        THEN LET r == BounceVertical(b, hit_factor)
             IN  [r EXCEPT !.position = NewPosition(lp.x + PaddleWidth, r.position.y)]
        ELSE b

PaddleStep(lp, rp, b) ==
    LET hit == PaddleHit(lp, rp, b)
        hit_factor == HitFactor(lp, rp, b)
    IN  IF hit = "right"
        THEN LET r == BounceVertical(b, hit_factor)
             IN  [r EXCEPT !.position = NewPosition(rp.x - BallSize, r.position.y)]
        ELSE IF hit = "left"
        THEN LET r == BounceVertical(b, hit_factor)
             IN  [r EXCEPT !.position = NewPosition(lp.x + PaddleWidth, r.position.y)]
        ELSE b

\* mutant: the left edge never scores
Outcome_NoLeftScore(b) == IF b.position.x > Width THEN 1 ELSE 0

\* mutant: a ball exactly on an edge already scores
Outcome_AtEdge(b) ==
    IF b.position.x <= 0 THEN 2
    ELSE IF b.position.x >= Width THEN 1
    ELSE 0

\* update_world, lines 415-423: the outcome decided on the ball after the paddle step
Outcome(b) ==
    IF b.position.x < 0 THEN 2
    ELSE IF b.position.x > Width THEN 1
    ELSE 0

\* mutant: restart_game leaves the paddle where it is
RestartPaddle_NoRecenter(p) == NewPosition(p.x, p.y)

RestartPaddle(p) == NewPosition(p.x, (Height - PaddleHeight) \div 2)

ResetBall(b, h_dir, v_dir) == Reset(b, Width \div 2, Height \div 2, h_dir, v_dir)

\* History of the last call: its kind (op), for restart_game how many came in
\* a row (restarts, counted up to 2), and for a tick: the ball before the
\* call (pre), after the motion step (moved), after the wall step (walled) and
\* after the paddle step (hit), the paddles the tick saw, which paddle bounced
\* the ball, the hit factor passed to bounce_vertical, and the value returned.
NoTick ==
    [outcome |-> 0, bounce |-> "none", wall |-> FALSE, hit_factor |-> 0,
     lp |-> NewPosition(0, 0), rp |-> NewPosition(0, 0),
     pre |-> NewBall(0, 0, 1, 1), moved |-> NewBall(0, 0, 1, 1),
     walled |-> NewBall(0, 0, 1, 1), hit |-> NewBall(0, 0, 1, 1)]

LastOp(op, restarts, t) == [op |-> op, restarts |-> restarts, tick |-> t]

\* What a collaborator holds after reading a World property: the object the
\* property returned (ref names the Position it is) and the coordinates it
\* showed at the time of the read.
NoView == [ref |-> "none", at |-> NewPosition(0, 0)]

(* ---------------- the dialogue layer: its state ------------------------- *)
\* The key symbols the dialogues name in onkeypress (key-press bindings) and
\* in onkey (key-release bindings).
PressKeys == {"w", "s", "W", "S", "Up", "Down"}
ReleaseKeys == {"Up", "Down", "Return"}

\* a binding: the bound method (fn) and the dialogue whose object it belongs to
NoHandler == [fn |-> "none", obj |-> 0]

\* DialogueMaster before any put_dialogue, no key bound. dialogue is the
\* index in dialogues of DialogueMaster.dialogue (0: None); dialogues lists
\* every dialogue object created, with how often it was mounted and unmounted;
\* score, winner and selected_index are the fields of the newest game,
\* game-over and menu objects; press and release are the screen's bindings;
\* events are the mount and unmount calls of the last put_dialogue; loop is the
\* dialogue endless_loop refreshed last and whether it was mounted then; bye
\* says that turtle.bye() has closed the window.
NoUi ==
    [dialogue |-> 0, dialogues |-> <<>>, score |-> <<0, 0>>, winner |-> 0,
     selected_index |-> 0,
     press |-> [k \in PressKeys |-> NoHandler],
     release |-> [k \in ReleaseKeys |-> NoHandler],
     events |-> <<>>, loop |-> [id |-> 0, mounted |-> FALSE], bye |-> FALSE]

(* ---------------- state after construction ----------------------------- *)
Init ==
    /\ left_paddle = NewPosition(LeftPaddleX, (Height - PaddleHeight) \div 2)
    /\ right_paddle = NewPosition(RightPaddleX, (Height - PaddleHeight) \div 2)
    /\ \E h_dir \in Directions, v_dir \in Directions :
          ball = NewBall(Width \div 2, Height \div 2, h_dir, v_dir)
    /\ ticks = 0
    /\ moves = 0
    /\ last = LastOp("init", 0, NoTick)
    /\ bounces = 0
    /\ view = NoView
    /\ ui = NoUi

(* ---------------- operations of World ----------------------------------- *)
\* update_world as it acts on the World
WorldTick(tick_limit) ==
    /\ ticks < tick_limit
    /\ LET moved == UpdatePosition(ball)
           walled == WallStep(moved)
           hit == PaddleStep(left_paddle, right_paddle, walled)
           outcome == Outcome(hit)
           t == [outcome |-> outcome,
                 bounce |-> PaddleHit(left_paddle, right_paddle, walled),
                 wall |-> WallHit(moved),
                 hit_factor |-> HitFactor(left_paddle, right_paddle, walled),
                 lp |-> left_paddle, rp |-> right_paddle,
                 pre |-> ball, moved |-> moved,
                 walled |-> walled, hit |-> hit]
       IN  /\ last' = LastOp("update_world", 0, t)
           /\ IF outcome # 0
              THEN /\ left_paddle' = RestartPaddle(left_paddle)
                   /\ right_paddle' = RestartPaddle(right_paddle)
                   /\ \E h_dir \in Directions, v_dir \in Directions :
                         ball' = ResetBall(hit, h_dir, v_dir)
                   /\ ticks' = 0
                   /\ moves' = 0
                   /\ bounces' = 0
              ELSE /\ ball' = hit
                   /\ ticks' = ticks + 1
                   /\ bounces' = IF t.bounce = "none" THEN bounces ELSE bounces + 1
                   /\ UNCHANGED <<left_paddle, right_paddle, moves>>

\* update_world called on a World of its own, outside any dialogue
UpdateWorld(tick_limit) == WorldTick(tick_limit) /\ UNCHANGED <<view, ui>>

MoveLeftPaddleUp(move_limit) ==
    /\ moves < move_limit
    /\ left_paddle' = MoveUp(left_paddle, Height)
    /\ moves' = moves + 1
    /\ last' = LastOp("move", 0, NoTick)
    /\ UNCHANGED <<right_paddle, ball, ticks, bounces, view, ui>>

MoveLeftPaddleDown(move_limit) ==
    /\ moves < move_limit
    /\ left_paddle' = MoveDown(left_paddle, Height)
    /\ moves' = moves + 1
    /\ last' = LastOp("move", 0, NoTick)
    /\ UNCHANGED <<right_paddle, ball, ticks, bounces, view, ui>>

MoveRightPaddleUp(move_limit) ==
    /\ moves < move_limit
    /\ right_paddle' = MoveUp(right_paddle, Height)
    /\ moves' = moves + 1
    /\ last' = LastOp("move", 0, NoTick)
    /\ UNCHANGED <<left_paddle, ball, ticks, bounces, view, ui>>

MoveRightPaddleDown(move_limit) ==
    /\ moves < move_limit
    /\ right_paddle' = MoveDown(right_paddle, Height)
    /\ moves' = moves + 1
    /\ last' = LastOp("move", 0, NoTick)
    /\ UNCHANGED <<left_paddle, ball, ticks, bounces, view, ui>>

RestartGame ==
    /\ left_paddle' = RestartPaddle(left_paddle)
    /\ right_paddle' = RestartPaddle(right_paddle)
    /\ \E h_dir \in Directions, v_dir \in Directions :
          ball' = ResetBall(ball, h_dir, v_dir)
    /\ ticks' = 0
    /\ moves' = 0
    /\ last' = LastOp("restart_game", Min(last.restarts + 1, 2), NoTick)
    /\ bounces' = 0
    /\ UNCHANGED <<view, ui>>

Next ==
    \/ UpdateWorld(MaxTicks)
    \/ MoveLeftPaddleUp(MaxMoves)
    \/ MoveLeftPaddleDown(MaxMoves)
    \/ MoveRightPaddleUp(MaxMoves)
    \/ MoveRightPaddleDown(MaxMoves)
    \/ RestartGame

Spec == Init /\ [][Next]_vars

\* the same program explored with few ticks and many move commands per round
NextMoves ==
    \/ UpdateWorld(PadTicks)
    \/ MoveLeftPaddleUp(PadMoves)
    \/ MoveLeftPaddleDown(PadMoves)
    \/ MoveRightPaddleUp(PadMoves)
    \/ MoveRightPaddleDown(PadMoves)
    \/ RestartGame

SpecMoves == Init /\ [][NextMoves]_vars

(* ---------------- Ball.bounce_vertical on its own ----------------------- *)
\* every ball speed the class keeps (magnitudes up to max_speed, both
\* directions) and every hit factor n / PaddleHeight in [-1, 1]
HitFactors == (-PaddleHeight) .. PaddleHeight

InitBounce ==
    /\ left_paddle = NewPosition(LeftPaddleX, (Height - PaddleHeight) \div 2)
    /\ right_paddle = NewPosition(RightPaddleX, (Height - PaddleHeight) \div 2)
    /\ \E hv \in BaseSpeed .. MaxSpeed, vv \in 0 .. MaxSpeed,
          h_dir \in Directions, v_dir \in Directions :
          ball = [position |-> NewPosition(Width \div 2, Height \div 2),
                  horizontal_speed |-> NewSpeed(hv, h_dir),
                  vertical_speed |-> NewSpeed(vv, v_dir)]
    /\ ticks = 0
    /\ moves = 0
    /\ last = LastOp("init", 0, NoTick)
    /\ bounces = 0
    /\ view = NoView
    /\ ui = NoUi

\* one call of bounce_vertical on the ball drawn by InitBounce
BounceVerticalCall ==
    \E hit_factor \in HitFactors :
        /\ last.op = "init"
        /\ ball' = BounceVertical(ball, hit_factor)
        /\ last' = LastOp("bounce_vertical", 0,
                          [NoTick EXCEPT !.hit_factor = hit_factor,
                                         !.walled = ball,
                                         !.hit = BounceVertical(ball, hit_factor)])
        /\ UNCHANGED <<left_paddle, right_paddle, ticks, moves, bounces, view, ui>>

NextBounce == BounceVerticalCall

SpecBounce == InitBounce /\ [][NextBounce]_vars

(* ---------------- one tick from the states around the paddles ----------- *)
\* update_world applied once to a ball anywhere between a paddle's
\* neighbourhood and the arena edge behind it, level with the paddle's edges or
\* its middle, with every magnitude the speeds can take.
PaddleYs == {0, (Height - PaddleHeight) \div 2, Height - PaddleHeight}

BallXs == (0 .. LeftPaddleX + PaddleWidth + Near)
          \cup (RightPaddleX - BallSize - Near .. Width)

BallYs(paddle_y) ==
    {y \in {paddle_y - BallSize - 1, paddle_y - BallSize,
            paddle_y + (PaddleHeight - BallSize) \div 2,
            paddle_y + PaddleHeight, paddle_y + PaddleHeight + 1} :
        0 <= y /\ y <= Height - BallSize}

InitTick ==
    /\ \E paddle_y \in PaddleYs :
          /\ left_paddle = NewPosition(LeftPaddleX, paddle_y)
          /\ right_paddle = NewPosition(RightPaddleX, paddle_y)
          /\ \E x \in BallXs, y \in BallYs(paddle_y),
                hv \in BaseSpeed .. MaxSpeed, vv \in {0, MaxSpeed},
                h_dir \in Directions, v_dir \in Directions :
                /\ ball = [position |-> NewPosition(x, y),
                           horizontal_speed |-> NewSpeed(hv, h_dir),
                           vertical_speed |-> NewSpeed(vv, v_dir)]
                /\ bounces = hv - BaseSpeed
    /\ ticks = 0
    /\ moves = 0
    /\ last = LastOp("init", 0, NoTick)
    /\ view = NoView
    /\ ui = NoUi

NextTick == UpdateWorld(1)

SpecTick == InitTick /\ [][NextTick]_vars

(* ---------------- get_hit_factor as a function of its inputs ------------ *)
\* how far beyond the two ends of the paddle the hit coordinates range
HitMargin == 3

\* every height a paddle can stand at: steps of the paddle speed from the
\* centred start, clamped at 0 and Height - PaddleHeight
PaddleTravel ==
    {k * PaddleSpeed : k \in 0..((Height - PaddleHeight) \div PaddleSpeed)}

InitHit ==
    /\ \E y \in PaddleTravel :
            /\ left_paddle = NewPosition(LeftPaddleX, y)
            /\ right_paddle = NewPosition(RightPaddleX, y)
    /\ ball = NewBall(Width \div 2, Height \div 2, 1, 1)
    /\ ticks = 0
    /\ moves = 0
    /\ last = LastOp("init", 0, NoTick)
    /\ bounces = 0
    /\ view = NoView
    /\ ui = NoUi

\* get_hit_factor called on the left paddle with the coordinate ball_y, and
\* with the next coordinate above it
GetHitFactorCall ==
    /\ last.op = "init"
    /\ \E ball_y \in (left_paddle.y - HitMargin)
                        ..(left_paddle.y + PaddleHeight + HitMargin) :
            last' = LastOp("get_hit_factor", 0,
                           [ball_y |-> ball_y,
                            hit_factor |-> GetHitFactor(left_paddle, ball_y),
                            next_hit_factor |->
                                GetHitFactor(left_paddle, ball_y + 1)])
    /\ UNCHANGED <<left_paddle, right_paddle, ball, ticks, moves, bounces, view, ui>>

NextHit == GetHitFactorCall

SpecHit == InitHit /\ [][NextHit]_vars

(* ---------------- a Speed object and its four mutators ------------------ *)
\* arguments of the calls range over -SpeedArg..SpeedArg, magnitudes are
\* followed while they stay within -SpeedCap..SpeedCap
SpeedArg == 3
SpeedCap == 30

SpeedArgs == (-SpeedArg)..SpeedArg

\* the Speed under test is the ball's horizontal speed, constructed with a
\* magnitude >= 0 (the precondition of __init__) and any direction argument
InitSpeed ==
    /\ left_paddle = NewPosition(LeftPaddleX, (Height - PaddleHeight) \div 2)
    /\ right_paddle = NewPosition(RightPaddleX, (Height - PaddleHeight) \div 2)
    /\ \E value \in 0..SpeedArg, direction \in SpeedArgs :
            ball = [position |-> NewPosition(Width \div 2, Height \div 2),
                    horizontal_speed |-> NewSpeed(value, direction),
                    vertical_speed |-> NewSpeed(0, 1)]
    /\ ticks = 0
    /\ moves = 0
    /\ last = LastOp("init", 0, NoTick)
    /\ bounces = 0
    /\ view = NoView
    /\ ui = NoUi

SpeedCall(op, s) ==
    /\ s.value \in (-SpeedCap)..SpeedCap
    /\ ball' = [ball EXCEPT !.horizontal_speed = s]
    /\ last' = LastOp(op, 0, NoTick)
    /\ UNCHANGED <<left_paddle, right_paddle, ticks, moves, bounces, view, ui>>

SpeedReverse == SpeedCall("reverse", Reverse(ball.horizontal_speed))

SpeedIncrease ==
    \E amount \in SpeedArgs :
        SpeedCall("increase", Increase(ball.horizontal_speed, amount))

SpeedDecrease ==
    \E amount \in SpeedArgs :
        SpeedCall("decrease", Decrease(ball.horizontal_speed, amount))

SpeedSetValue ==
    \E value \in SpeedArgs :
        SpeedCall("set_value", SetValue(ball.horizontal_speed, value))

NextSpeed == SpeedReverse \/ SpeedIncrease \/ SpeedDecrease \/ SpeedSetValue

SpecSpeed == InitSpeed /\ [][NextSpeed]_vars

(* ---------------- construction with arbitrary arguments ----------------- *)
\* the arguments range to ArgMargin on either side of 0 and of PaddleHeight
ArgMargin == 3

\* mutant: PositiveInt accepts zero
PositiveInt_NonNegative(value) == value >= 0

\* the precondition of PositiveInt.__new__
PositiveInt(value) == value > 0

\* the fields World.__init__ assigns for the given arguments
NewWorld(width, height, h_dir, v_dir) ==
    [left_paddle |-> NewPosition(LeftPaddleX, (height - PaddleHeight) \div 2),
     right_paddle |->
        NewPosition(width - 20 - PaddleWidth, (height - PaddleHeight) \div 2),
     ball |-> NewBall(width \div 2, height \div 2, h_dir, v_dir)]

\* the four invariants of class World
WorldInvariants(w, width, height) ==
    /\ 0 <= w.left_paddle.y /\ w.left_paddle.y <= height - PaddleHeight
    /\ 0 <= w.right_paddle.y /\ w.right_paddle.y <= height - PaddleHeight
    /\ 0 <= w.ball.position.x /\ w.ball.position.x <= width
    /\ 0 <= w.ball.position.y /\ w.ball.position.y <= height

\* World(width, height) raises when a PositiveInt precondition fails or when
\* the invariants, evaluated at the end of __init__, do not hold
WorldRaises(width, height) ==
    \/ ~PositiveInt(width)
    \/ ~PositiveInt(height)
    \/ ~WorldInvariants(NewWorld(width, height, 1, 1), width, height)

\* Speed(value, direction) raises when its precondition value >= 0 fails
SpeedRaises(value, direction) == ~(value >= 0)

WorldWidths == ((-ArgMargin)..ArgMargin) \cup {Width}

WorldHeights == ((-ArgMargin)..(PaddleHeight + ArgMargin)) \cup {Height}

\* World(width, height): on success the new object's fields are the state
ConstructWorld ==
    /\ last.op = "init"
    /\ \E width \in WorldWidths, height \in WorldHeights :
        LET raised == WorldRaises(width, height)
        IN  /\ last' = LastOp("World", 0,
                          [width |-> width, height |-> height, raised |-> raised])
            /\ IF raised
               THEN UNCHANGED <<left_paddle, right_paddle, ball>>
               ELSE \E h_dir \in Directions, v_dir \in Directions :
                        LET w == NewWorld(width, height, h_dir, v_dir)
                        IN  /\ left_paddle' = w.left_paddle
                            /\ right_paddle' = w.right_paddle
                            /\ ball' = w.ball
    /\ UNCHANGED <<ticks, moves, bounces, view, ui>>

\* Speed(value, direction): on success the new object is the ball's horizontal speed
ConstructSpeed ==
    /\ last.op = "init"
    /\ \E value \in (-ArgMargin)..ArgMargin, direction \in (-ArgMargin)..ArgMargin :
        LET raised == SpeedRaises(value, direction)
        IN  /\ last' = LastOp("Speed", 0,
                          [value |-> value, direction |-> direction,
                           raised |-> raised])
            /\ IF raised
               THEN UNCHANGED ball
               ELSE ball' = [ball EXCEPT
                                !.horizontal_speed = NewSpeed(value, direction)]
    /\ UNCHANGED <<left_paddle, right_paddle, ticks, moves, bounces, view, ui>>

NextConstruct == ConstructWorld \/ ConstructSpeed

SpecConstruct == Init /\ [][NextConstruct]_vars

(* ---------------- a collaborator reading the World ---------------------- *)
\* ticks and move commands explored around a read
ReadTicks == 3
ReadMoves == 2

\* The properties left_paddle, right_paddle and ball return the Position
\* object the paddle or ball itself holds and updates in place, so what a
\* holder of the returned object sees is the current position of that object.
ViewNow ==
    IF view.ref = "left_paddle" THEN left_paddle
    ELSE IF view.ref = "right_paddle" THEN right_paddle
    ELSE IF view.ref = "ball" THEN ball.position
    ELSE view.at

Read(ref, position) ==
    /\ view' = [ref |-> ref, at |-> position]
    /\ UNCHANGED <<left_paddle, right_paddle, ball, ticks, moves, last, bounces,
                   ui>>

ReadLeftPaddle == Read("left_paddle", left_paddle)

ReadRightPaddle == Read("right_paddle", right_paddle)

ReadBall == Read("ball", ball.position)

NextRead ==
    \/ UpdateWorld(ReadTicks)
    \/ MoveLeftPaddleUp(ReadMoves)
    \/ MoveLeftPaddleDown(ReadMoves)
    \/ MoveRightPaddleUp(ReadMoves)
    \/ MoveRightPaddleDown(ReadMoves)
    \/ RestartGame
    \/ ReadLeftPaddle
    \/ ReadRightPaddle
    \/ ReadBall

SpecRead == Init /\ [][NextRead]_vars

(* ---------------- one tick from the states along the walls -------------- *)
\* update_world applied once to a ball within WallNear of the top or the
\* bottom wall, in front of either paddle, in mid-field or next to an edge of
\* the arena, with the paddles at
\* an end of their travel, one step from it, or centred. A ball off the
\* centre line has a vertical magnitude of at least 1.
WallNear == 12

WallPaddleYs ==
    {0, PaddleSpeed, (Height - PaddleHeight) \div 2,
     Height - PaddleHeight - PaddleSpeed, Height - PaddleHeight}

WallXs ==
    (LeftPaddleX + PaddleWidth .. LeftPaddleX + PaddleWidth + MaxSpeed)
    \cup {1, Width \div 2, Width - 1}
    \cup (RightPaddleX - BallSize - MaxSpeed .. RightPaddleX - BallSize)

WallYs == (0 .. WallNear) \cup (Height - BallSize - WallNear .. Height - BallSize)

InitWall ==
    /\ \E paddle_y \in WallPaddleYs :
          /\ left_paddle = NewPosition(LeftPaddleX, paddle_y)
          /\ right_paddle = NewPosition(RightPaddleX, paddle_y)
    /\ \E x \in WallXs, y \in WallYs,
          hv \in {BaseSpeed, MaxSpeed}, vv \in {1, MaxSpeed \div 2, MaxSpeed},
          h_dir \in Directions, v_dir \in Directions :
            /\ ball = [position |-> NewPosition(x, y),
                       horizontal_speed |-> NewSpeed(hv, h_dir),
                       vertical_speed |-> NewSpeed(vv, v_dir)]
            /\ bounces = hv - BaseSpeed
    /\ ticks = 0
    /\ moves = 0
    /\ last = LastOp("init", 0, NoTick)
    /\ view = NoView
    /\ ui = NoUi

NextWall == UpdateWorld(1)

SpecWall == InitWall /\ [][NextWall]_vars

(* ---------------- the dialogue layer: operations ------------------------ *)
\* ticks and paddle commands explored in one round of a game, and dialogue
\* objects created in one run
GameTicks == 250
GameMoves == 1
MaxDialogues == 4

WinningScore == 5

Bind(table, key, fn, obj) == [table EXCEPT ![key] = [fn |-> fn, obj |-> obj]]

Unbind(table, key) == [table EXCEPT ![key] = NoHandler]

\* GameDialogue.mount: four key-press bindings to the commands of its World
GameMount(u, id) ==
    [u EXCEPT !.press =
        Bind(Bind(Bind(Bind(@, "w", "move_left_paddle_up", id),
                       "s", "move_left_paddle_down", id),
                  "Up", "move_right_paddle_up", id),
             "Down", "move_right_paddle_down", id)]

\* GameDialogue.unmount: removes the key-press bindings of "W", "S", "Up", "Down"
GameUnmount(u) ==
    [u EXCEPT !.press = Unbind(Unbind(Unbind(Unbind(@, "W"), "S"), "Up"), "Down")]

\* MainMenuDialogue.mount and GameOverDialogue.mount: three key-release bindings
MenuMount(u, id) ==
    [u EXCEPT !.release =
        Bind(Bind(Bind(@, "Up", "_move_up", id), "Down", "_move_down", id),
             "Return", "_select", id)]

\* MainMenuDialogue.unmount and GameOverDialogue.unmount
MenuUnmount(u) ==
    [u EXCEPT !.release = Unbind(Unbind(Unbind(@, "Up"), "Down"), "Return")]

Mount(u, id) ==
    LET m == IF u.dialogues[id].kind = "game" THEN GameMount(u, id)
             ELSE MenuMount(u, id)
    IN  [m EXCEPT !.dialogues[id].mounts = @ + 1,
                  !.events = Append(@, [call |-> "mount", id |-> id])]

Unmount(u, id) ==
    LET m == IF u.dialogues[id].kind = "game" THEN GameUnmount(u)
             ELSE MenuUnmount(u)
    IN  [m EXCEPT !.dialogues[id].unmounts = @ + 1,
                  !.events = Append(@, [call |-> "unmount", id |-> id])]

\* the constructors of the three dialogues: a new object with its own fields
NewDialogue(u, kind, winner) ==
    [u EXCEPT !.dialogues =
                  Append(@, [kind |-> kind, mounts |-> 0, unmounts |-> 0]),
              !.score = IF kind = "game" THEN <<0, 0>> ELSE @,
              !.selected_index = IF kind = "game" THEN @ ELSE 0,
              !.winner = IF kind = "over" THEN winner ELSE @]

\* mutant: the new dialogue is mounted before the previous one is unmounted
PutDialogue_MountFirst(u, id) ==
    LET start == [u EXCEPT !.events = <<>>]
        mounted == Mount([start EXCEPT !.dialogue = id], id)
    IN  IF start.dialogue # 0 THEN Unmount(mounted, start.dialogue) ELSE mounted

\* DialogueMaster.put_dialogue(d), d the dialogue object with index id
PutDialogue(u, id) ==
    LET start == [u EXCEPT !.events = <<>>]
        unmounted == IF start.dialogue # 0 THEN Unmount(start, start.dialogue)
                     ELSE start
        assigned == [unmounted EXCEPT !.dialogue = id]
    IN  Mount(assigned, id)

\* whether the dialogue object id has been mounted and not unmounted
IsMounted(u, id) ==
    /\ id \in 1..Len(u.dialogues)
    /\ u.dialogues[id].mounts > u.dialogues[id].unmounts

\* endless_loop is about to call refresh on DialogueMaster.dialogue
LoopRefresh(u) ==
    [u EXCEPT !.loop = [id |-> u.dialogue, mounted |-> IsMounted(u, u.dialogue)]]

\* GameDialogue.__init__ creates a World of its own
NewGameWorld ==
    /\ left_paddle' = NewPosition(LeftPaddleX, (Height - PaddleHeight) \div 2)
    /\ right_paddle' = NewPosition(RightPaddleX, (Height - PaddleHeight) \div 2)
    /\ \E h_dir \in Directions, v_dir \in Directions :
            ball' = NewBall(Width \div 2, Height \div 2, h_dir, v_dir)
    /\ ticks' = 0
    /\ moves' = 0
    /\ bounces' = 0
    /\ last' = LastOp("init", 0, NoTick)

\* mutant: the point goes to the other player
AddScore_Other(u, state) == [u EXCEPT !.score[3 - state] = @ + 1]

\* GameDialogue.refresh: update_world returned state (1 or 2), the point goes
\* to score[state - 1], here the element state of the pair
AddScore(u, state) == [u EXCEPT !.score[state] = @ + 1]

\* main(): the first put_dialogue, of a new MainMenuDialogue
MainPutDialogue ==
    /\ ui.dialogues = <<>>
    /\ ui' = PutDialogue(NewDialogue(ui, "menu", 0), 1)
    /\ UNCHANGED <<left_paddle, right_paddle, ball, ticks, moves, last, bounces,
                   view>>

\* one turn of endless_loop with a GameDialogue: GameDialogue.refresh. The
\* restart_game that refresh repeats after a score that does not end the game
\* leaves the World in the states the restart inside update_world leaves it in.
GameRefresh ==
    /\ ~ui.bye
    /\ ui.dialogue # 0
    /\ ui.dialogues[ui.dialogue].kind = "game"
    /\ WorldTick(GameTicks)
    /\ LET state == last'.tick.outcome
           looped == LoopRefresh(ui)
       IN  IF state = 0
           THEN ui' = looped
           ELSE LET scored == AddScore(looped, state)
                    id == Len(ui.dialogues) + 1
                IN  IF scored.score[state] = WinningScore
                    THEN /\ id <= MaxDialogues
                         /\ ui' = PutDialogue(NewDialogue(scored, "over", state), id)
                    ELSE ui' = scored
    /\ UNCHANGED view

\* one turn of endless_loop with a menu or a game-over dialogue: refresh draws
MenuRefresh ==
    /\ ~ui.bye
    /\ ui.dialogue # 0
    /\ ui.dialogues[ui.dialogue].kind # "game"
    /\ ui' = LoopRefresh(ui)
    /\ UNCHANGED <<left_paddle, right_paddle, ball, ticks, moves, last, bounces,
                   view>>

\* a key-press event: the bound paddle command acts on the World it belongs to
KeyPress(key) ==
    /\ ~ui.bye
    /\ ui.press[key].fn # "none"
    /\ moves < GameMoves
    /\ LET fn == ui.press[key].fn
       IN  /\ left_paddle' =
                  (IF fn = "move_left_paddle_up" THEN MoveUp(left_paddle, Height)
                   ELSE IF fn = "move_left_paddle_down"
                   THEN MoveDown(left_paddle, Height)
                   ELSE left_paddle)
           /\ right_paddle' =
                  (IF fn = "move_right_paddle_up" THEN MoveUp(right_paddle, Height)
                   ELSE IF fn = "move_right_paddle_down"
                   THEN MoveDown(right_paddle, Height)
                   ELSE right_paddle)
    /\ moves' = moves + 1
    /\ last' = LastOp("move", 0, NoTick)
    /\ UNCHANGED <<ball, ticks, bounces, view, ui>>

\* a key-release event bound to _move_up or _move_down of a menu
MenuMove(key) ==
    /\ ~ui.bye
    /\ ui.release[key].fn \in {"_move_up", "_move_down"}
    /\ ui' = [ui EXCEPT !.selected_index =
                (IF ui.release[key].fn = "_move_up" THEN @ - 1 ELSE @ + 1) % 2]
    /\ UNCHANGED <<left_paddle, right_paddle, ball, ticks, moves, last, bounces,
                   view>>

\* a key-release event bound to _select: the first option ("Play", "Retry")
\* puts a new GameDialogue, the second one of the game-over dialogue a new
\* MainMenuDialogue, the second one of the main menu closes the window
MenuSelect(key) ==
    /\ ~ui.bye
    /\ ui.release[key].fn = "_select"
    /\ LET kind == ui.dialogues[ui.release[key].obj].kind
           id == Len(ui.dialogues) + 1
       IN  IF ui.selected_index = 0
           THEN /\ id <= MaxDialogues
                /\ ui' = PutDialogue(NewDialogue(ui, "game", 0), id)
                /\ NewGameWorld
           ELSE IF kind = "over"
           THEN /\ id <= MaxDialogues
                /\ ui' = PutDialogue(NewDialogue(ui, "menu", 0), id)
                /\ UNCHANGED <<left_paddle, right_paddle, ball, ticks, moves,
                               last, bounces>>
           ELSE /\ ui' = [ui EXCEPT !.bye = TRUE]
                /\ UNCHANGED <<left_paddle, right_paddle, ball, ticks, moves,
                               last, bounces>>
    /\ UNCHANGED view

NextGame ==
    \/ MainPutDialogue
    \/ GameRefresh
    \/ MenuRefresh
    \/ \E key \in PressKeys : KeyPress(key)
    \/ \E key \in ReleaseKeys : MenuMove(key)
    \/ \E key \in ReleaseKeys : MenuSelect(key)

\* the program of main.py: no dialogue put yet, no World created yet (the
\* World variables hold the values a new World has)
InitGame ==
    /\ left_paddle = NewPosition(LeftPaddleX, (Height - PaddleHeight) \div 2)
    /\ right_paddle = NewPosition(RightPaddleX, (Height - PaddleHeight) \div 2)
    /\ ball = NewBall(Width \div 2, Height \div 2, 1, 1)
    /\ ticks = 0
    /\ moves = 0
    /\ last = LastOp("init", 0, NoTick)
    /\ bounces = 0
    /\ view = NoView
    /\ ui = NoUi

SpecGame == InitGame /\ [][NextGame]_vars

(* ---------------- continual ticking without input ----------------------- *)
\* ticks followed in one round; a round left alone ends well within them
LiveTicks == 250

\* endless_loop keeps calling update_world and no move command is issued
NextLive == UpdateWorld(LiveTicks)

SpecLive == Init /\ [][NextLive]_vars /\ WF_vars(NextLive)

(* ======================= claims ========================================= *)
CenterY == (Height - PaddleHeight) \div 2

\* C1: in the default World, whatever sequence of update_world ticks, move
\* commands and restart_game calls has run, both paddles satisfy
\* 0 <= paddle.y <= height - paddle_height.
C1_PaddlesInBounds ==
    /\ 0 <= left_paddle.y /\ left_paddle.y <= Height - PaddleHeight
    /\ 0 <= right_paddle.y /\ right_paddle.y <= Height - PaddleHeight

\* one more move command than it takes to reach the top, all spent on the left
\* paddle: the last of them was clamped at 0
C1_Witness ==
    /\ last.op = "move"
    /\ left_paddle.y = 0
    /\ right_paddle.y = CenterY
    /\ moves = CenterY \div PaddleSpeed + 1

C3_OutcomeExact ==
    last.op = "update_world" =>
        /\ last.tick.outcome \in {0, 1, 2}
        /\ (last.tick.outcome = 2) <=> (last.tick.hit.position.x < 0)
        /\ (last.tick.outcome = 1) <=> (last.tick.hit.position.x > Width)
        /\ (last.tick.hit.position.x = 0 \/ last.tick.hit.position.x = Width)
              => last.tick.outcome = 0

C3_Witness ==
    /\ last.op = "update_world"
    /\ last.tick.hit.position.x = Width
    /\ last.tick.outcome = 0

\* C4: after restart_game, called directly or by update_world on a score, both
\* paddles are at y = (height - paddle_height) // 2 with x unchanged, the ball
\* is at (width // 2, height // 2), the horizontal magnitude is base_speed and
\* the vertical magnitude is 0, whatever the state before; the two directions
\* are each +1 or -1.
C4_RestartResult ==
    (last.op = "restart_game" \/ (last.op = "update_world" /\ last.tick.outcome # 0))
    => /\ left_paddle = NewPosition(LeftPaddleX, CenterY)
       /\ right_paddle = NewPosition(RightPaddleX, CenterY)
       /\ ball.position = NewPosition(Width \div 2, Height \div 2)
       /\ ball.horizontal_speed.value = BaseSpeed
       /\ ball.vertical_speed.value = 0
       /\ ball.horizontal_speed.direction \in Directions
       /\ ball.vertical_speed.direction \in Directions

\* restart_game called twice in a row, the second call drawing directions -1, +1
C4_Witness ==
    /\ last.op = "restart_game"
    /\ last.restarts = 2
    /\ ball.horizontal_speed.direction = -1
    /\ ball.vertical_speed.direction = 1

\* the closed intervals [a1, a2] and [b1, b2] share a point
Overlap(a1, a2, b1, b2) == a1 <= b2 /\ b1 <= a2

\* the ball's horizontal extent at x, or one step further, meets the paddle's x-span
XOverlap(b, paddle) ==
    LET x == b.position.x
        next_x == b.position.x + b.horizontal_speed.value * b.horizontal_speed.direction
    IN  \/ Overlap(x, x + BallSize, paddle.x, paddle.x + PaddleWidth)
        \/ Overlap(next_x, next_x + BallSize, paddle.x, paddle.x + PaddleWidth)

YOverlap(b, paddle) ==
    Overlap(b.position.y, b.position.y + BallSize, paddle.y, paddle.y + PaddleHeight)

\* the ball lies entirely between the paddle's back face and the arena edge
BeyondRight(b, paddle) == b.position.x > paddle.x + PaddleWidth
BeyondLeft(b, paddle) == b.position.x + BallSize < paddle.x

\* C5: update_world bounces the ball off a paddle only if the ball's horizontal
\* extent, at its position after the motion step or one step further, overlaps
\* the paddle's x-span and the vertical spans overlap; a ball already entirely
\* beyond the paddle is never bounced or put back in front of it.
C5_BounceOnlyOnOverlap ==
    last.op = "update_world" =>
        /\ last.tick.bounce = "right" =>
              /\ XOverlap(last.tick.walled, last.tick.rp)
              /\ YOverlap(last.tick.walled, last.tick.rp)
              /\ ~BeyondRight(last.tick.walled, last.tick.rp)
        /\ last.tick.bounce = "left" =>
              /\ XOverlap(last.tick.walled, last.tick.lp)
              /\ YOverlap(last.tick.walled, last.tick.lp)
              /\ ~BeyondLeft(last.tick.walled, last.tick.lp)

\* C6: in every tick where, after the motion and wall steps, the ball moves right
\* with ball.x + size >= right_paddle.x and its vertical span overlaps the right
\* paddle's, a right-paddle bounce occurs in that tick; symmetrically on the
\* left (moving left, ball.x <= left_paddle.x + width); for every horizontal
\* magnitude.
C6_NoCrossingUnbounced ==
    last.op = "update_world" =>
        /\ (/\ last.tick.walled.horizontal_speed.direction = 1
            /\ last.tick.walled.position.x + BallSize >= last.tick.rp.x
            /\ YOverlap(last.tick.walled, last.tick.rp))
           => last.tick.bounce = "right"
        /\ (/\ last.tick.walled.horizontal_speed.direction = -1
            /\ last.tick.walled.position.x <= last.tick.lp.x + PaddleWidth
            /\ YOverlap(last.tick.walled, last.tick.lp))
           => last.tick.bounce = "left"

\* the fastest ball, one step from tunnelling: its leading edge has just reached
\* the right paddle's plane, and it is bounced
C6_Witness ==
    /\ last.op = "update_world"
    /\ last.tick.walled.horizontal_speed = NewSpeed(MaxSpeed, 1)
    /\ last.tick.walled.position.x + BallSize = last.tick.rp.x
    /\ last.tick.walled.position.y = last.tick.rp.y + PaddleHeight
    /\ last.tick.bounce = "right"

\* C7: a paddle bounce happens only against the paddle the ball travels
\* towards and at most once per tick: after a right-paddle bounce the ball,
\* which was moving right, has horizontal direction -1 and
\* x = right_paddle.x - size; after a left-paddle bounce the ball, which was
\* moving left, has direction +1 and x = left_paddle.x + width; the paddle step
\* leaves ball.y as it was.
C7_BounceEffect ==
    last.op = "update_world" =>
        /\ last.tick.bounce \in {"none", "left", "right"}
        /\ last.tick.hit.position.y = last.tick.walled.position.y
        /\ last.tick.bounce = "right" =>
              /\ last.tick.walled.horizontal_speed.direction = 1
              /\ last.tick.hit.horizontal_speed.direction = -1
              /\ last.tick.hit.position.x = last.tick.rp.x - BallSize
        /\ last.tick.bounce = "left" =>
              /\ last.tick.walled.horizontal_speed.direction = -1
              /\ last.tick.hit.horizontal_speed.direction = 1
              /\ last.tick.hit.position.x = last.tick.lp.x + PaddleWidth
        /\ last.tick.bounce = "none" => last.tick.hit = last.tick.walled
        /\ last.tick.hit.horizontal_speed.value
              <= last.tick.walled.horizontal_speed.value + SpeedIncrement

\* a second bounce of the round, off the left paddle, by a ball moved up or down
C7_Witness ==
    /\ last.op = "update_world"
    /\ last.tick.bounce = "left"
    /\ last.tick.walled.horizontal_speed.value > BaseSpeed
    /\ last.tick.walled.position.y # Height \div 2

\* C8: for every hit factor in [-1, 1] and every ball state, bounce_vertical
\* reverses the horizontal direction and sets the horizontal magnitude to
\* min(old magnitude + speed_increment, max_speed), whatever the hit factor.
C8_HorizontalBounce ==
    last.op = "bounce_vertical" =>
        /\ last.tick.hit.horizontal_speed.direction
              = 0 - last.tick.walled.horizontal_speed.direction
        /\ last.tick.hit.horizontal_speed.value
              = Min(last.tick.walled.horizontal_speed.value + SpeedIncrement, MaxSpeed)
        /\ ball = last.tick.hit

\* a bounce at max_speed, where the cap applies, with a non-zero hit factor
C8_Witness ==
    /\ last.op = "bounce_vertical"
    /\ last.tick.walled.horizontal_speed.value = MaxSpeed
    /\ last.tick.hit.horizontal_speed.value = MaxSpeed
    /\ last.tick.hit_factor = PaddleHeight \div 2

\* C9 as stated: bounce_vertical sets the vertical magnitude v to exactly
\* min(max(v, |h| * max_speed), max_speed) for every hit factor h in [-1, 1]
\* (both sides multiplied by PaddleHeight, h = hit_factor / PaddleHeight).
C9_ExactMagnitude ==
    last.op = "bounce_vertical" =>
        last.tick.hit.vertical_speed.value * PaddleHeight
          = Min(Max(last.tick.walled.vertical_speed.value * PaddleHeight,
                    Abs(last.tick.hit_factor) * MaxSpeed),
                MaxSpeed * PaddleHeight)

\* C9 amended: bounce_vertical sets the vertical magnitude v to
\* min(max(v, floor(|h| * max_speed)), max_speed); so the magnitude never
\* decreases from a hit, never exceeds max_speed, and h = 1 or h = -1 gives
\* exactly max_speed.
C9_TruncatedMagnitude ==
    last.op = "bounce_vertical" =>
        /\ last.tick.hit.vertical_speed.value
              = Min(Max(last.tick.walled.vertical_speed.value,
                        (Abs(last.tick.hit_factor) * MaxSpeed) \div PaddleHeight),
                    MaxSpeed)
        /\ last.tick.hit.vertical_speed.value >= last.tick.walled.vertical_speed.value
        /\ last.tick.hit.vertical_speed.value <= MaxSpeed
        /\ Abs(last.tick.hit_factor) = PaddleHeight
              => last.tick.hit.vertical_speed.value = MaxSpeed

\* the hit factor 0.14 of the first bounce of a game (paddle at 250, ball centre
\* at 307) on a ball with no vertical speed: 1.68 is truncated to 1
C9_Witness ==
    /\ last.op = "bounce_vertical"
    /\ last.tick.hit_factor = 14
    /\ last.tick.walled.vertical_speed.value = 0
    /\ last.tick.hit.vertical_speed.value = 1

\* C10: after bounce_vertical(h) the vertical direction is +1 if h > 0, -1 if
\* h < 0 and its value before the call if h = 0; for h = 0 the vertical
\* magnitude is left at its value before the call too.
C10_VerticalDirection ==
    last.op = "bounce_vertical" =>
        /\ last.tick.hit_factor > 0 => last.tick.hit.vertical_speed.direction = 1
        /\ last.tick.hit_factor < 0 => last.tick.hit.vertical_speed.direction = -1
        /\ last.tick.hit_factor = 0 =>
              last.tick.hit.vertical_speed = last.tick.walled.vertical_speed

\* a centre hit on a ball moving up at a non-zero vertical speed
C10_Witness ==
    /\ last.op = "bounce_vertical"
    /\ last.tick.hit_factor = 0
    /\ last.tick.walled.vertical_speed = NewSpeed(MaxSpeed \div 2, -1)
    /\ last.tick.hit.vertical_speed = NewSpeed(MaxSpeed \div 2, -1)

\* C11: get_hit_factor(c) is ((c - paddle.y) / height) * 2 - 1 clamped to
\* [-1, 1] for every integer c and every paddle position (here as the numerator
\* over PaddleHeight): it lies in [-1, 1], does not decrease when c grows, and
\* is exactly -1 at c = paddle.y, +1 at c = paddle.y + height and 0 at
\* c = paddle.y + height / 2.
C11_HitFactor ==
    last.op = "get_hit_factor" =>
        LET c == last.tick.ball_y
            h == last.tick.hit_factor
            exact == 2 * (c - left_paddle.y) - PaddleHeight
        IN  /\ h = (IF exact < -PaddleHeight THEN -PaddleHeight
                    ELSE IF exact > PaddleHeight THEN PaddleHeight
                    ELSE exact)
            /\ -PaddleHeight <= h
            /\ h <= PaddleHeight
            /\ h <= last.tick.next_hit_factor
            /\ (c = left_paddle.y => h = -PaddleHeight)
            /\ (c = left_paddle.y + PaddleHeight => h = PaddleHeight)
            /\ (c = left_paddle.y + PaddleHeight \div 2 => h = 0)

C11_Witness ==
    /\ last.op = "get_hit_factor"
    /\ left_paddle.y = Height - PaddleHeight
    /\ last.tick.ball_y = left_paddle.y + PaddleHeight \div 2
    /\ last.tick.hit_factor = 0
    /\ last.tick.next_hit_factor > 0

\* C12: in a tick where the ball after the motion step has y <= 0 or
\* y >= Height - BallSize, the wall step reverses the vertical direction exactly
\* once, puts y at 0 (top) or Height - BallSize (bottom), and leaves x, the
\* horizontal speed and the vertical magnitude as they were; in every other
\* tick the wall step changes nothing.
C12_WallStep ==
    last.op = "update_world" =>
        LET m == last.tick.moved
            w == last.tick.walled
        IN  IF m.position.y <= 0 \/ m.position.y >= Height - BallSize
            THEN /\ w.vertical_speed.direction = -m.vertical_speed.direction
                 /\ w.position.y = (IF m.position.y <= 0 THEN 0
                                    ELSE Height - BallSize)
                 /\ w.position.x = m.position.x
                 /\ w.horizontal_speed = m.horizontal_speed
                 /\ w.vertical_speed.value = m.vertical_speed.value
            ELSE w = m

C12_Witness ==
    /\ last.op = "update_world"
    /\ last.tick.moved.position.y > Height - BallSize
    /\ last.tick.moved.vertical_speed.direction = 1
    /\ last.tick.walled.position.y = Height - BallSize
    /\ last.tick.walled.vertical_speed.direction = -1

\* C13: a Speed constructed with a magnitude >= 0 keeps magnitude >= 0 and a
\* direction of exactly +1 or -1 after any sequence of reverse(), increase(a),
\* decrease(a) and set_value(v) with arbitrary integer arguments.
C13_SpeedInvariant ==
    /\ ball.horizontal_speed.value >= 0
    /\ ball.horizontal_speed.direction \in {-1, 1}

C15_MoveFrame ==
    [][/\ MoveLeftPaddleUp(PadMoves) =>
            /\ left_paddle' = [left_paddle EXCEPT
                                 !.y = IF left_paddle.y - PaddleSpeed > 0
                                       THEN left_paddle.y - PaddleSpeed ELSE 0]
            /\ right_paddle' = right_paddle
            /\ ball' = ball
       /\ MoveLeftPaddleDown(PadMoves) =>
            /\ left_paddle' = [left_paddle EXCEPT
                                 !.y = IF left_paddle.y + PaddleSpeed
                                            < Height - PaddleHeight
                                       THEN left_paddle.y + PaddleSpeed
                                       ELSE Height - PaddleHeight]
            /\ right_paddle' = right_paddle
            /\ ball' = ball
       /\ MoveRightPaddleUp(PadMoves) =>
            /\ right_paddle' = [right_paddle EXCEPT
                                 !.y = IF right_paddle.y - PaddleSpeed > 0
                                       THEN right_paddle.y - PaddleSpeed ELSE 0]
            /\ left_paddle' = left_paddle
            /\ ball' = ball
       /\ MoveRightPaddleDown(PadMoves) =>
            /\ right_paddle' = [right_paddle EXCEPT
                                 !.y = IF right_paddle.y + PaddleSpeed
                                            < Height - PaddleHeight
                                       THEN right_paddle.y + PaddleSpeed
                                       ELSE Height - PaddleHeight]
            /\ left_paddle' = left_paddle
            /\ ball' = ball
       /\ left_paddle'.x = left_paddle.x
       /\ right_paddle'.x = right_paddle.x
      ]_vars

\* one more move command than it takes to reach the bottom, all spent on the
\* right paddle: the last of them was clamped at Height - PaddleHeight
C15_Witness ==
    /\ last.op = "move"
    /\ right_paddle.y = Height - PaddleHeight
    /\ left_paddle.y = CenterY
    /\ moves = (Height - PaddleHeight - CenterY) \div PaddleSpeed + 1

\* C16: each of the four World invariants is true every time a public World
\* method is entered or left: at the entry and exit of every call a
\* collaborator makes, and inside update_world at the calls it makes itself,
\* collision_left or collision_right after the wall step and restart_game
\* when it has detected a score.
C16_InvariantsAtEveryCall ==
    /\ WorldInvariants([left_paddle |-> left_paddle,
                        right_paddle |-> right_paddle, ball |-> ball],
                       Width, Height)
    /\ last.op = "update_world" =>
        /\ WorldInvariants([left_paddle |-> last.tick.lp,
                            right_paddle |-> last.tick.rp,
                            ball |-> last.tick.pre], Width, Height)
        /\ WorldInvariants([left_paddle |-> last.tick.lp,
                            right_paddle |-> last.tick.rp,
                            ball |-> last.tick.walled], Width, Height)
        /\ last.tick.outcome # 0 =>
            WorldInvariants([left_paddle |-> last.tick.lp,
                             right_paddle |-> last.tick.rp,
                             ball |-> last.tick.hit], Width, Height)

\* C17: a position value a collaborator obtained from left_paddle,
\* right_paddle or ball keeps the coordinates it had when it was read,
\* whatever the World does afterwards.
C17_SnapshotKeepsCoordinates == view.ref # "none" => ViewNow = view.at

\* C18: the steps of a tick run in the order motion, wall, paddle, scoring, so
\* a paddle bounce takes precedence over a score: every tick in which a paddle
\* bounce occurs returns 0 and performs no restart (the ball stays as the
\* paddle step left it, the paddles stay where they were), even when the
\* motion step had put the ball's x below 0 or above Width.
C18_BounceBeforeScore ==
    (last.op = "update_world" /\ last.tick.bounce # "none") =>
        /\ last.tick.outcome = 0
        /\ ball = last.tick.hit
        /\ left_paddle = last.tick.lp
        /\ right_paddle = last.tick.rp
        /\ 0 <= ball.position.x /\ ball.position.x <= Width

\* the right paddle, moved level after the ball had passed it, bounces a ball
\* that the motion step had taken beyond the right edge
C18_Witness ==
    /\ last.op = "update_world"
    /\ last.tick.bounce = "right"
    /\ last.tick.moved.position.x > Width
    /\ last.tick.outcome = 0
    /\ ball.position.x = RightPaddleX - BallSize

\* C19: in every state the horizontal magnitude lies in [BaseSpeed, MaxSpeed]
\* and the vertical magnitude in [0, MaxSpeed]; after k paddle bounces of a
\* round the horizontal magnitude is exactly
\* min(BaseSpeed + k * SpeedIncrement, MaxSpeed); a tick lowers neither
\* magnitude, except that a restart puts them back to BaseSpeed and 0.
C19_SpeedProgression ==
    /\ BaseSpeed <= ball.horizontal_speed.value
    /\ ball.horizontal_speed.value <= MaxSpeed
    /\ 0 <= ball.vertical_speed.value
    /\ ball.vertical_speed.value <= MaxSpeed
    /\ ball.horizontal_speed.value
          = (IF BaseSpeed + bounces * SpeedIncrement < MaxSpeed
             THEN BaseSpeed + bounces * SpeedIncrement ELSE MaxSpeed)
    /\ last.op = "update_world" =>
        /\ last.tick.hit.horizontal_speed.value
              >= last.tick.pre.horizontal_speed.value
        /\ last.tick.hit.vertical_speed.value
              >= last.tick.pre.vertical_speed.value
        /\ IF last.tick.outcome = 0
           THEN /\ ball.horizontal_speed.value
                      >= last.tick.pre.horizontal_speed.value
                /\ ball.vertical_speed.value
                      >= last.tick.pre.vertical_speed.value
           ELSE /\ ball.horizontal_speed.value = BaseSpeed
                /\ ball.vertical_speed.value = 0
                /\ bounces = 0
    /\ last.op = "restart_game" =>
        /\ ball.horizontal_speed.value = BaseSpeed
        /\ ball.vertical_speed.value = 0
        /\ bounces = 0

\* a bounce of a ball already at the maximum speed: the count goes on, the
\* magnitude stays
C19_Witness ==
    /\ last.op = "update_world"
    /\ last.tick.bounce # "none"
    /\ last.tick.pre.horizontal_speed.value = MaxSpeed
    /\ ball.horizontal_speed.value = MaxSpeed
    /\ bounces = (MaxSpeed - BaseSpeed) \div SpeedIncrement + 1
    /\ ball.vertical_speed.value > 0

\* C20 (as claimed): after every update_world a ball at y = 0 has vertical
\* direction +1 and a ball at y = Height - BallSize has vertical direction -1,
\* also in a tick with both a wall bounce and a paddle bounce.
C20_NeverIntoWall ==
    last.op = "update_world" =>
        /\ ball.position.y = 0 => ball.vertical_speed.direction = 1
        /\ ball.position.y = Height - BallSize =>
                ball.vertical_speed.direction = -1

\* C20 (amended): after an update_world without a paddle bounce a ball at
\* y = 0 has vertical direction +1 and a ball at y = Height - BallSize has
\* vertical direction -1; after an update_world with a paddle bounce a ball on
\* a wall heads into that wall, because a paddle that reaches a ball on the wall
\* has its centre on the far side of the ball's centre and the bounce takes
\* the direction of the hit factor.
C20_AwayUnlessPaddleBounce ==
    last.op = "update_world" =>
        /\ ball.position.y = 0 =>
                ball.vertical_speed.direction
                    = (IF last.tick.bounce = "none" THEN 1 ELSE -1)
        /\ ball.position.y = Height - BallSize =>
                ball.vertical_speed.direction
                    = (IF last.tick.bounce = "none" THEN -1 ELSE 1)

\* the bottom wall and the right paddle in one tick
C20_Witness ==
    /\ last.op = "update_world"
    /\ last.tick.wall
    /\ last.tick.bounce = "right"
    /\ ball.position.y = Height - BallSize
    /\ ball.vertical_speed.direction = 1

\* C21: the score of a GameDialogue starts at [0, 0]; each refresh adds exactly
\* 1 to score[0] if update_world returned 1, exactly 1 to score[1] if it
\* returned 2 and nothing if it returned 0; both scores stay within
\* 0..WinningScore; the GameOverDialogue with winner w is put exactly in the
\* refresh in which player w's score becomes WinningScore; and a GameDialogue
\* that has put it is not refreshed again (a refreshed GameDialogue is mounted
\* and has no score at WinningScore yet).
C21_ScoreTracking ==
    [][/\ ui'.score[1] \in 0..WinningScore
       /\ ui'.score[2] \in 0..WinningScore
       /\ (ui'.dialogue # ui.dialogue /\ ui'.dialogues[ui'.dialogue].kind = "game")
            => ui'.score = <<0, 0>>
       /\ GameRefresh =>
            LET state == last'.tick.outcome
                won == {w \in {1, 2} : ui'.score[w] = WinningScore}
            IN  /\ ui.dialogues[ui.dialogue].mounts = 1
                /\ ui.dialogues[ui.dialogue].unmounts = 0
                /\ ui.score[1] < WinningScore
                /\ ui.score[2] < WinningScore
                /\ ui'.score[1] = ui.score[1] + (IF state = 1 THEN 1 ELSE 0)
                /\ ui'.score[2] = ui.score[2] + (IF state = 2 THEN 1 ELSE 0)
                /\ IF won = {}
                   THEN ui'.dialogue = ui.dialogue
                   ELSE /\ ui'.dialogue = Len(ui.dialogues) + 1
                        /\ ui'.dialogues[ui'.dialogue].kind = "over"
                        /\ ui'.winner = state
                        /\ won = {state}
                        /\ ui'.dialogues[ui.dialogue].unmounts = 1
       /\ ~GameRefresh =>
            (ui'.score = ui.score \/ ui'.score = <<0, 0>>)
      ]_vars

\* the longest game: player 2 wins 5 to 4
C21_Witness ==
    /\ ui.dialogue # 0
    /\ ui.dialogues[ui.dialogue].kind = "over"
    /\ ui.winner = 2
    /\ ui.score = <<4, 5>>
    /\ ui.loop.id = ui.dialogue - 1

\* C22: DialogueMaster keeps at most one dialogue mounted. Whatever
\* put_dialogue calls the program has made, from main, from a refresh or from a
\* key handler: in each call the previous dialogue's unmount ran before the new
\* dialogue's mount; every dialogue has been mounted once and unmounted at most
\* once; the only dialogue mounted and not unmounted is DialogueMaster.dialogue;
\* and the dialogue endless_loop called refresh on was mounted at that time.
C22_OneMounted ==
    /\ \A id \in 1..Len(ui.dialogues) :
            /\ ui.dialogues[id].mounts = 1
            /\ ui.dialogues[id].unmounts <= 1
            /\ ui.dialogues[id].unmounts = 0 <=> id = ui.dialogue
    /\ ui.dialogues = <<>> <=> ui.dialogue = 0
    /\ ui.dialogue # 0 =>
            /\ ui.events[Len(ui.events)] = [call |-> "mount", id |-> ui.dialogue]
            /\ Len(ui.events) \in {1, 2}
            /\ Len(ui.events) = 1 <=> ui.dialogue = 1
            /\ Len(ui.events) = 2 =>
                    /\ ui.events[1].call = "unmount"
                    /\ ui.events[1].id # ui.dialogue
                    /\ ui.dialogues[ui.events[1].id].unmounts = 1
    /\ ui.loop.id # 0 => ui.loop.mounted

\* a game put by the menu's key handler, a game-over dialogue put by that
\* game's refresh, and a second game put by the game-over dialogue's key
\* handler and refreshed by endless_loop
C22_Witness ==
    /\ Len(ui.dialogues) = 4
    /\ ui.dialogues[2].kind = "game"
    /\ ui.dialogues[3].kind = "over"
    /\ ui.dialogues[3].unmounts = 1
    /\ ui.dialogues[4].kind = "game"
    /\ ui.dialogue = 4
    /\ ui.loop.id = 4

\* C23: key bindings follow the mounted dialogue: once GameDialogue.unmount
\* has run, none of the keys "w", "s", "Up", "Down" that its mount bound still
\* invokes a paddle command of its World, so that while a game-over dialogue
\* or the main menu is mounted no key press has moved a paddle.
C23_KeysFollowMountedDialogue ==
    /\ \A id \in 1..Len(ui.dialogues) :
            (ui.dialogues[id].kind = "game" /\ ui.dialogues[id].unmounts > 0) =>
                \A key \in {"w", "s", "Up", "Down"} :
                    ui.press[key].fn = "none" \/ ui.press[key].obj # id
    /\ (ui.dialogue # 0 /\ ui.dialogues[ui.dialogue].kind # "game") =>
            last.op # "move"

\* C24: the ball cannot stall: in the default World with no move command
\* issued, whichever way the ball starts, continual ticking makes update_world
\* return a nonzero outcome after finitely many ticks, and again after every
\* restart, so rounds end infinitely often.
C24_RoundsEnd == []<>(last.op = "update_world" /\ last.tick.outcome # 0)

\* a round that ends for player 1 after the ball bounced once, off the left paddle
C24_Witness ==
    /\ last.op = "update_world"
    /\ last.tick.outcome = 1
    /\ last.tick.pre.horizontal_speed.value = BaseSpeed + SpeedIncrement
    /\ last.tick.lp.y = (Height - PaddleHeight) \div 2
    /\ ticks = 0
    /\ moves = 0

====
